---- MODULE Spec2Model ----
(***************************************************************************)
(* tracing-callgraph: a tracing Layer (GraphLayer) that records span-enter *)
(* events as weighted directed edges of a call graph shared behind         *)
(* Arc<Mutex<CallGraph>>, and a FlushGuard that writes the graph in dot    *)
(* form to its writer on flush() and on drop.                              *)
(*                                                                         *)
(* The graph is petgraph's GraphMap<&'static str, usize, Directed>: a set  *)
(* of nodes and a map from ordered node pairs to a weight.  Edges are kept *)
(* here as a set of triples <<from, to, weight>> so that "one edge per     *)
(* ordered pair" is a property of the operations and not of the encoding.  *)
(* Each handler holds the mutex for all of its graph accesses: in Spec one  *)
(* handler is one action, with panics and writer failures; in SpecThreads  *)
(* the handlers run on threads, one lock operation or statement at a time. *)
(***************************************************************************)
EXTENDS Integers, Sequences, FiniteSets, TLC

\* ---------------------------------------------------------------- bounds
\* Completed on_enter calls in a behaviour.
MaxObserve == 2
\* Explicit flush() calls in a behaviour (the flush of drop comes on top).
MaxFlush == 1
\* enable_top_node and disable_top_node calls in a behaviour of the threads.
MaxTopCalls == 2
\* on_enter calls of each thread when the threads enter spans of their own.
MaxCalls == 2

\* Option::None, for a missing parent, a missing top node, a span id that is
\* not in the registry.
None == "none"
\* Names of instrumented spans.
SpanNames == {"a", "b"}
\* Names of the spans that are parents of entered spans.
ParentNames == {"a"}
\* Names given to enable_top_node; "a" is also a span's name.
TopNames == {"a", "r"}
Names == SpanNames \cup TopNames

\* The threads: two that enter spans, the one that builds the layer and hands
\* it to the subscriber, and the one that owns the FlushGuard.
Workers == {"w1", "w2"}
Builder == "main"
Holder == "g"
Threads == Workers \cup {Builder, Holder}
\* The arguments of a thread that is in no call.
NoArg == [span |-> None, parent |-> None, name |-> None, old |-> None]

VARIABLES
    graph,        \* GraphLayer.graph / FlushGuard.graph: [nodes, edges]
    top_node,     \* GraphLayer.top_node: a name or None
    layer,        \* "alive", or "dropped" once a builder call unwound with it
    poisoned,     \* the Mutex's poison flag
    guard,        \* the FlushGuard: "Bound" or "Released" (dropped)
    writer,       \* FlushGuard.writer: the serializations written, in order
    observed,     \* history: completed on_enter calls, counted per (span, parent)
    reconfigured, \* history: a top-node call came after a completed on_enter
    flushCalls,   \* history: invocations of FlushGuard::flush (explicit and by drop)
    sinceFlush,   \* history: the graph calls since the writer was last written to
    last,         \* history: the last call, its result and the top node before it
    pc,           \* per thread: where the thread is in the call it is making
    arg,          \* per thread: the arguments of the call it is making
    holders,      \* the threads that have locked the Mutex and not released it
    installed,    \* the layer was handed to the subscriber the threads share
    committed,    \* history: the graph made by the calls that released the lock
    calls         \* history: calls started per kind, on_enter calls with a caller done

\* The state of the threads.
tvars == <<pc, arg, holders, installed, committed, calls>>

vars == <<graph, top_node, layer, poisoned, guard, writer,
          observed, reconfigured, flushCalls, sinceFlush, last, tvars>>

\* ------------------------------------------------- petgraph GraphMap, as used
EmptyGraph == [nodes |-> {}, edges |-> {}]

Key(e) == <<e[1], e[2]>>

EdgesAt(g, a, b) == {e \in g.edges : Key(e) = <<a, b>>}

\* Variant: an edge is looked up by its source alone.
contains_edge_from(g, a, b) == \E e \in g.edges : e[1] = a

\* GraphMap::contains_edge / edge_weight_mut(a, b).is_some()
contains_edge(g, a, b) == EdgesAt(g, a, b) # {}

\* GraphMap::add_node: inserts n unless it is present.
add_node(g, n) == [g EXCEPT !.nodes = @ \cup {n}]

\* Variant: the edge is set, its end nodes are not inserted.
add_edge_no_nodes(g, a, b, w) ==
    [g EXCEPT !.edges = (@ \ EdgesAt(g, a, b)) \cup {<<a, b, w>>}]

\* GraphMap::add_edge: inserts both end nodes, and sets the weight of (a, b),
\* replacing the weight of an edge already there.
add_edge(g, a, b, w) ==
    [nodes |-> g.nodes \cup {a, b},
     edges |-> (g.edges \ EdgesAt(g, a, b)) \cup {<<a, b, w>>}]

\* *edge_weight_mut(a, b).unwrap() += 1
increase_weight(g, a, b) ==
    [g EXCEPT !.edges = (@ \ EdgesAt(g, a, b))
                          \cup {<<a, b, e[3] + 1>> : e \in EdgesAt(g, a, b)}]

\* Variant: the node goes, its edges stay behind.
remove_node_leaves_edges(g, n) == [g EXCEPT !.nodes = @ \ {n}]

\* GraphMap::remove_node: removes n and every edge from or to n.
remove_node(g, n) ==
    [nodes |-> g.nodes \ {n},
     edges |-> {e \in g.edges : e[1] # n /\ e[2] # n}]

\* ------------------------------------------------------------ GraphLayer
\* Variant: the top node is looked at before the parent.
find_parent_top_first(parent, top) ==
    IF top # None THEN top
    ELSE IF parent # None THEN parent
    ELSE None

\* on_enter, lines 222-229: the caller of the entered span, or None.
find_parent(parent, top) ==
    IF parent # None THEN parent
    ELSE IF top # None THEN top
    ELSE None

\* Variant: the edge is added with weight 1 whether or not it is there.
record_span_no_increment(g, span, parent, top) ==
    LET withNode == add_node(g, span)
        node_a   == find_parent(parent, top)
    IN  IF node_a = None THEN withNode
        ELSE add_edge(withNode, node_a, span, 1)

\* on_enter, lines 217-237, on the locked graph.
record_span(g, span, parent, top) ==
    LET withNode == add_node(g, span)
        node_a   == find_parent(parent, top)
    IN  IF node_a = None THEN withNode
        ELSE IF contains_edge(withNode, node_a, span)
             THEN increase_weight(withNode, node_a, span)
             ELSE add_edge(withNode, node_a, span, 1)

\* disable_top_node, lines 115-117, on the graph.
without_top_node(g, top) ==
    IF top # None THEN remove_node(g, top) ELSE g

\* Variant: the top node before is not disabled first.
with_top_node_keep_old(g, top, name) == add_node(g, name)

\* enable_top_node, lines 107-109, on the graph.
with_top_node(g, top, name) == add_node(without_top_node(g, top), name)

\* ------------------------------------------------------------ FlushGuard
\* Dot::new(&*graph) formatted with {:?}: one statement per node and one per
\* edge with its weight as label.
Dot(g) ==
    [node_stmts |-> {<<n, "label", n>> : n \in g.nodes},
     edge_stmts |-> {<<e[1], "->", e[2], "label", e[3]>> : e \in g.edges}]

\* Variant: the test of std::thread::panicking() the other way round.
poisoned_outcome_inverted(panicking) == IF panicking THEN "panic" ELSE "ok"

\* flush, lines 139-148: the outcome when lock() returns Err (poisoned).
poisoned_outcome(panicking) == IF ~panicking THEN "panic" ELSE "ok"

\* What the writer does with one flush: it takes the write and the flush
\* ("ok"), fails the write of writeln! ("write_err"), or takes the write and
\* fails writer.flush() ("flush_err").
IoOutcomes == {"ok", "write_err", "flush_err"}

\* flush: what the call returns.
flush_result(panicking, io) ==
    IF poisoned THEN poisoned_outcome(panicking)
    ELSE IF io = "ok" THEN "ok" ELSE "err"

\* Variant: each write starts the output anew.
flush_writer_truncating(panicking, io) ==
    IF ~poisoned /\ io # "write_err" THEN <<Dot(graph)>> ELSE writer

\* flush, lines 149-153: the writer after the call.  The writer holds the
\* serializations that writeln! handed to it in full.
flush_writer(panicking, io) ==
    IF ~poisoned /\ io # "write_err" THEN Append(writer, Dot(graph)) ELSE writer

\* Error::report: the error is logged; the call returns.
report(result) == "reported"

\* Variant: the Err of the flush in drop is unwrapped.
drop_outcome_unwrap(result) == IF result = "err" THEN "panic" ELSE result

\* drop, lines 162-165: Ok is dropped, Err(e) goes to e.report().
drop_outcome(result) == IF result = "err" THEN report(result) ELSE result

\* --------------------------------------------------------------- history
ObsKeys == [span : SpanNames, parent : ParentNames \cup {None}]

Call(op, result) == [op |-> op, result |-> result, preTop |-> top_node]

NoObservation == \A k \in ObsKeys : observed[k] = 0

RECURSIVE Total(_, _)
Total(f, S) ==
    IF S = {} THEN 0
    ELSE LET k == CHOOSE x \in S : TRUE IN f[k] + Total(f, S \ {k})

\* sinceFlush: "none", "top" (enable/disable_top_node calls only) or "observe"
\* (an on_enter call among them).
AfterTopCall == IF sinceFlush = "none" THEN "top" ELSE sinceFlush

AfterFlush(w) == IF w # writer THEN "none" ELSE sinceFlush

\* ------------------------------------------------------------------ Init
\* GraphLayer::with_file: new() and flush_on_drop(writer).
Init ==
    /\ graph = EmptyGraph
    /\ top_node = None
    /\ layer = "alive"
    /\ poisoned = FALSE
    /\ guard = "Bound"
    /\ writer = << >>
    /\ observed = [k \in ObsKeys |-> 0]
    /\ reconfigured = FALSE
    /\ flushCalls = 0
    /\ sinceFlush = "none"
    /\ last = [op |-> "with_file", result |-> "ok", preTop |-> None]
    /\ pc = [t \in Threads |-> "idle"]
    /\ arg = [t \in Threads |-> NoArg]
    /\ holders = {}
    /\ installed = FALSE
    /\ committed = EmptyGraph
    /\ calls = [on_enter |-> 0, top_node |-> 0, with_caller |-> 0]

\* --------------------------------------------------------------- actions
\* Variant: the span is looked up before the lock is taken, so a missing span
\* panics with the mutex free.
on_enter_lookup_before_lock(span, parent) ==
    /\ layer = "alive"
    /\ Total(observed, ObsKeys) < MaxObserve
    /\ IF span = None \/ poisoned
       THEN /\ last' = Call("on_enter", "panic")
            /\ UNCHANGED <<graph, poisoned, observed>>
       ELSE /\ graph' = record_span(graph, span, parent, top_node)
            /\ observed' = [observed EXCEPT
                   ![[span |-> span, parent |-> parent]] = @ + 1]
            /\ last' = Call("on_enter", "ok")
            /\ UNCHANGED poisoned
    /\ sinceFlush' = "observe"
    /\ UNCHANGED <<top_node, layer, guard, writer, reconfigured, flushCalls>>
    /\ UNCHANGED tvars

\* Layer::on_enter for a span id whose span is `span` (None: not in the
\* registry) and whose parent span is `parent`.
on_enter(span, parent) ==
    /\ layer = "alive"
    /\ Total(observed, ObsKeys) < MaxObserve
    /\ IF poisoned
       THEN \* lock().unwrap() panics
            /\ last' = Call("on_enter", "panic")
            /\ UNCHANGED <<graph, poisoned, observed>>
       ELSE IF span = None
       THEN \* expect() panics while the lock is held: the mutex is poisoned
            /\ poisoned' = TRUE
            /\ last' = Call("on_enter", "panic")
            /\ UNCHANGED <<graph, observed>>
       ELSE /\ graph' = record_span(graph, span, parent, top_node)
            /\ observed' = [observed EXCEPT
                   ![[span |-> span, parent |-> parent]] = @ + 1]
            /\ last' = Call("on_enter", "ok")
            /\ UNCHANGED poisoned
    /\ sinceFlush' = "observe"
    /\ UNCHANGED <<top_node, layer, guard, writer, reconfigured, flushCalls>>
    /\ UNCHANGED tvars

\* GraphLayer::enable_top_node(self, name)
enable_top_node(name) ==
    /\ layer = "alive"
    /\ IF poisoned
       THEN \* lock().unwrap() panics (line 116 or 109); self is dropped unwinding
            /\ layer' = "dropped"
            /\ top_node' = None
            /\ last' = Call("enable_top_node", "panic")
            /\ UNCHANGED graph
       ELSE /\ graph' = with_top_node(graph, top_node, name)
            /\ top_node' = name
            /\ last' = Call("enable_top_node", "ok")
            /\ UNCHANGED layer
    /\ reconfigured' = (reconfigured \/ ~NoObservation)
    /\ sinceFlush' = AfterTopCall
    /\ UNCHANGED <<poisoned, guard, writer, observed, flushCalls>>
    /\ UNCHANGED tvars

\* GraphLayer::disable_top_node(self)
disable_top_node ==
    /\ layer = "alive"
    /\ IF top_node # None /\ poisoned
       THEN \* lock().unwrap() panics (line 116); self is dropped unwinding
            /\ layer' = "dropped"
            /\ top_node' = None
            /\ last' = Call("disable_top_node", "panic")
            /\ UNCHANGED graph
       ELSE /\ graph' = without_top_node(graph, top_node)
            /\ top_node' = None
            /\ last' = Call("disable_top_node", "ok")
            /\ UNCHANGED layer
    /\ reconfigured' = (reconfigured \/ ~NoObservation)
    /\ sinceFlush' = AfterTopCall
    /\ UNCHANGED <<poisoned, guard, writer, observed, flushCalls>>
    /\ UNCHANGED tvars

\* Variant: a flush that takes the graph out of the mutex and leaves it empty.
flush_taking_graph(panicking, io) ==
    /\ guard = "Bound"
    /\ flushCalls < MaxFlush
    /\ writer' = flush_writer(panicking, io)
    /\ graph' = IF poisoned THEN graph ELSE EmptyGraph
    /\ flushCalls' = flushCalls + 1
    /\ sinceFlush' = AfterFlush(flush_writer(panicking, io))
    /\ last' = Call("flush", flush_result(panicking, io))
    /\ UNCHANGED <<top_node, layer, poisoned, guard, observed, reconfigured>>
    /\ UNCHANGED tvars

\* FlushGuard::flush(&mut self), called by the guard's owner.  panicking is
\* std::thread::panicking() of the calling thread, io what the writer does
\* with the write and the flush.
flush(panicking, io) ==
    /\ guard = "Bound"
    /\ flushCalls < MaxFlush
    /\ writer' = flush_writer(panicking, io)
    /\ flushCalls' = flushCalls + 1
    /\ sinceFlush' = AfterFlush(flush_writer(panicking, io))
    /\ last' = Call("flush", flush_result(panicking, io))
    /\ UNCHANGED <<graph, top_node, layer, poisoned, guard, observed, reconfigured>>
    /\ UNCHANGED tvars

\* Variant: a drop that releases the guard and does not flush.
drop_without_flush(panicking, io) ==
    /\ guard = "Bound"
    /\ guard' = "Released"
    /\ last' = Call("drop", "ok")
    /\ UNCHANGED <<graph, top_node, layer, poisoned, writer, observed,
                   reconfigured, flushCalls, sinceFlush>>
    /\ UNCHANGED tvars

\* Variant: a drop whose flush takes the graph and leaves it empty.
drop_taking_graph(panicking, io) ==
    /\ guard = "Bound"
    /\ guard' = "Released"
    /\ writer' = flush_writer(panicking, io)
    /\ graph' = EmptyGraph
    /\ flushCalls' = flushCalls + 1
    /\ sinceFlush' = AfterFlush(flush_writer(panicking, io))
    /\ last' = Call("drop", drop_outcome(flush_result(panicking, io)))
    /\ UNCHANGED <<top_node, layer, poisoned, observed, reconfigured>>
    /\ UNCHANGED tvars

\* Drop for FlushGuard: one flush(); an Err is reported, not returned.
drop(panicking, io) ==
    /\ guard = "Bound"
    /\ guard' = "Released"
    /\ writer' = flush_writer(panicking, io)
    /\ flushCalls' = flushCalls + 1
    /\ sinceFlush' = AfterFlush(flush_writer(panicking, io))
    /\ last' = Call("drop", drop_outcome(flush_result(panicking, io)))
    /\ UNCHANGED <<graph, top_node, layer, poisoned, observed, reconfigured>>
    /\ UNCHANGED tvars

Next ==
    \/ \E span \in SpanNames \cup {None}, parent \in ParentNames \cup {None} :
           on_enter(span, parent)
    \/ \E name \in TopNames : enable_top_node(name)
    \/ disable_top_node
    \/ \E panicking \in BOOLEAN, io \in IoOutcomes : flush(panicking, io)
    \/ \E panicking \in BOOLEAN, io \in IoOutcomes : drop(panicking, io)

Spec == Init /\ [][Next]_vars

\* --------------------------------------------------------------- threads
\* The handlers on threads.  A thread waits in lock() until no thread holds the
\* mutex, and the MutexGuard it gets is dropped where its scope ends.  The
\* builder calls take the layer by value: they are made by the thread that
\* owns the layer, before the layer goes to the subscriber, and on_enter is
\* called through the subscriber.  The FlushGuard has its own Arc of the graph
\* and flushes at any time.  No span id is missing and no write fails here.
shared == <<graph, top_node, guard, writer, flushCalls>>

seq_history == <<layer, poisoned, observed, reconfigured, sinceFlush, last>>

Goto(t, to) == [pc EXCEPT ![t] = to]

WithArg(t, a) == [arg EXCEPT ![t] = a]

\* Variant: a lock() that does not wait for the thread holding the mutex.
lock_without_waiting(t) == TRUE

\* Variant: the graph is read with no lock taken.
read_without_lock(t) == TRUE

\* self.graph.lock() in on_enter, line 215: returns when no thread holds it.
lock_on_enter(t) == holders = {}

\* self.graph.lock() in enable_top_node and disable_top_node, lines 109, 116.
lock_top_node(t) == holders = {}

\* self.graph.lock() in flush, line 139.
lock_flush(t) == holders = {}

\* on_enter is called on thread t for a span `span` with parent `parent`.
on_enter_call(t, span, parent) ==
    /\ installed
    /\ pc[t] = "idle"
    /\ calls.on_enter < MaxObserve
    /\ pc' = Goto(t, "oe_lock")
    /\ arg' = WithArg(t, [NoArg EXCEPT !.span = span, !.parent = parent])
    /\ calls' = [calls EXCEPT !.on_enter = @ + 1]
    /\ UNCHANGED <<holders, installed, committed, shared, seq_history>>

\* on_enter, line 215: the lock is taken.
on_enter_lock(t) ==
    /\ pc[t] = "oe_lock"
    /\ lock_on_enter(t)
    /\ holders' = holders \cup {t}
    /\ pc' = Goto(t, "oe_node")
    /\ UNCHANGED <<arg, installed, committed, calls, shared, seq_history>>

\* on_enter, line 220: graph.add_node(node_b).
on_enter_add_node(t) ==
    /\ pc[t] = "oe_node"
    /\ graph' = add_node(graph, arg[t].span)
    /\ pc' = Goto(t, "oe_parent")
    /\ UNCHANGED <<arg, holders, installed, committed, calls, seq_history>>
    /\ UNCHANGED <<top_node, guard, writer, flushCalls>>

\* on_enter, lines 222-229, with the mutex holders after the early return
\* (onReturn) and after going on to the edge (onEdge).
find_parent_step(t, onReturn, onEdge) ==
    /\ pc[t] = "oe_parent"
    /\ IF find_parent(arg[t].parent, top_node) = None
       THEN /\ holders' = onReturn
            /\ pc' = Goto(t, "idle")
            /\ arg' = WithArg(t, NoArg)
            /\ committed' = record_span(committed, arg[t].span, arg[t].parent,
                                        top_node)
       ELSE /\ holders' = onEdge
            /\ pc' = Goto(t, "oe_edge")
            /\ UNCHANGED <<arg, committed>>
    /\ UNCHANGED <<installed, calls, shared, seq_history>>

\* Variant: the guard is dropped once the caller is known, before the edge.
on_enter_find_parent_unlocking(t) ==
    find_parent_step(t, holders \ {t}, holders \ {t})

\* Variant: the early return leaves the mutex locked.
on_enter_find_parent_keeps_lock(t) == find_parent_step(t, holders, holders)

\* on_enter, lines 222-229: the caller is looked up; with none the call
\* returns, which drops the guard.
on_enter_find_parent(t) == find_parent_step(t, holders \ {t}, holders)

\* on_enter, lines 231-238: the edge is counted or added, and the guard is
\* dropped at the end of the call.
on_enter_edge(t) ==
    /\ pc[t] = "oe_edge"
    /\ LET node_a == find_parent(arg[t].parent, top_node)
           node_b == arg[t].span
       IN  graph' = IF contains_edge(graph, node_a, node_b)
                    THEN increase_weight(graph, node_a, node_b)
                    ELSE add_edge(graph, node_a, node_b, 1)
    /\ holders' = holders \ {t}
    /\ pc' = Goto(t, "idle")
    /\ arg' = WithArg(t, NoArg)
    /\ committed' = record_span(committed, arg[t].span, arg[t].parent, top_node)
    /\ calls' = [calls EXCEPT !.with_caller = @ + 1]
    /\ UNCHANGED <<installed, seq_history>>
    /\ UNCHANGED <<top_node, guard, writer, flushCalls>>

\* enable_top_node(name) is called: disable_top_node takes the top node out
\* of the layer (line 115); with none to remove, line 108 sets the new one.
enable_top_node_call(name) ==
    /\ ~installed
    /\ pc[Builder] = "idle"
    /\ calls.top_node < MaxTopCalls
    /\ calls' = [calls EXCEPT !.top_node = @ + 1]
    /\ IF top_node # None
       THEN /\ top_node' = None
            /\ arg' = WithArg(Builder, [NoArg EXCEPT !.name = name,
                                                    !.old = top_node])
            /\ pc' = Goto(Builder, "tn_lock_remove")
       ELSE /\ top_node' = name
            /\ arg' = WithArg(Builder, [NoArg EXCEPT !.name = name])
            /\ pc' = Goto(Builder, "tn_lock_add")
    /\ UNCHANGED <<holders, installed, committed, seq_history>>
    /\ UNCHANGED <<graph, guard, writer, flushCalls>>

\* disable_top_node() is called: the top node is taken out of the layer (line
\* 115); with none the call returns.
disable_top_node_call ==
    /\ ~installed
    /\ pc[Builder] = "idle"
    /\ calls.top_node < MaxTopCalls
    /\ calls' = [calls EXCEPT !.top_node = @ + 1]
    /\ IF top_node # None
       THEN /\ top_node' = None
            /\ arg' = WithArg(Builder, [NoArg EXCEPT !.old = top_node])
            /\ pc' = Goto(Builder, "tn_lock_remove")
       ELSE UNCHANGED <<top_node, arg, pc>>
    /\ UNCHANGED <<holders, installed, committed, seq_history>>
    /\ UNCHANGED <<graph, guard, writer, flushCalls>>

\* Lines 109 and 116: the lock is taken.
top_node_lock ==
    /\ pc[Builder] \in {"tn_lock_remove", "tn_lock_add"}
    /\ lock_top_node(Builder)
    /\ holders' = holders \cup {Builder}
    /\ pc' = Goto(Builder, IF pc[Builder] = "tn_lock_remove" THEN "tn_remove"
                           ELSE "tn_add")
    /\ UNCHANGED <<arg, installed, committed, calls, shared, seq_history>>

\* Line 116: remove_node(name), and the guard is dropped with the statement;
\* in enable_top_node line 108 then sets the new top node.
top_node_remove ==
    /\ pc[Builder] = "tn_remove"
    /\ graph' = remove_node(graph, arg[Builder].old)
    /\ committed' = remove_node(committed, arg[Builder].old)
    /\ holders' = holders \ {Builder}
    /\ IF arg[Builder].name # None
       THEN /\ top_node' = arg[Builder].name
            /\ pc' = Goto(Builder, "tn_lock_add")
            /\ UNCHANGED arg
       ELSE /\ pc' = Goto(Builder, "idle")
            /\ arg' = WithArg(Builder, NoArg)
            /\ UNCHANGED top_node
    /\ UNCHANGED <<installed, calls, seq_history>>
    /\ UNCHANGED <<guard, writer, flushCalls>>

\* Line 109: add_node(name), and the guard is dropped with the statement.
top_node_add ==
    /\ pc[Builder] = "tn_add"
    /\ graph' = add_node(graph, arg[Builder].name)
    /\ committed' = add_node(committed, arg[Builder].name)
    /\ holders' = holders \ {Builder}
    /\ pc' = Goto(Builder, "idle")
    /\ arg' = WithArg(Builder, NoArg)
    /\ UNCHANGED <<installed, calls, seq_history>>
    /\ UNCHANGED <<top_node, guard, writer, flushCalls>>

\* The layer is given to the subscriber the threads share, as in
\* examples/basic.rs.
install ==
    /\ ~installed
    /\ pc[Builder] = "idle"
    /\ installed' = TRUE
    /\ UNCHANGED <<pc, arg, holders, committed, calls, shared, seq_history>>

\* flush() is called on the guard.
flush_call ==
    /\ guard = "Bound"
    /\ pc[Holder] = "idle"
    /\ flushCalls < MaxFlush
    /\ flushCalls' = flushCalls + 1
    /\ pc' = Goto(Holder, "fl_lock")
    /\ UNCHANGED <<arg, holders, installed, committed, calls, seq_history>>
    /\ UNCHANGED <<graph, top_node, guard, writer>>

\* The guard is dropped: drop calls flush (line 162).
drop_call ==
    /\ guard = "Bound"
    /\ pc[Holder] = "idle"
    /\ flushCalls' = flushCalls + 1
    /\ pc' = Goto(Holder, "dr_lock")
    /\ UNCHANGED <<arg, holders, installed, committed, calls, seq_history>>
    /\ UNCHANGED <<graph, top_node, guard, writer>>

\* flush, line 139: the lock is taken.
flush_lock ==
    /\ pc[Holder] \in {"fl_lock", "dr_lock"}
    /\ lock_flush(Holder)
    /\ holders' = holders \cup {Holder}
    /\ pc' = Goto(Holder, IF pc[Holder] = "fl_lock" THEN "fl_write"
                          ELSE "dr_write")
    /\ UNCHANGED <<arg, installed, committed, calls, shared, seq_history>>

\* flush, lines 149-154: the graph is written and the writer flushed; the
\* guard of the mutex is dropped on return, and after drop the FlushGuard is
\* gone.
flush_write ==
    /\ pc[Holder] \in {"fl_write", "dr_write"}
    /\ writer' = Append(writer, Dot(graph))
    /\ holders' = holders \ {Holder}
    /\ guard' = IF pc[Holder] = "dr_write" THEN "Released" ELSE guard
    /\ pc' = Goto(Holder, "idle")
    /\ UNCHANGED <<arg, installed, committed, calls, seq_history>>
    /\ UNCHANGED <<graph, top_node, flushCalls>>

\* The steps a thread takes inside a call it has started.
Proceed(t) ==
    \/ /\ t \in Workers
       /\ \/ on_enter_lock(t)
          \/ on_enter_add_node(t)
          \/ on_enter_find_parent(t)
          \/ on_enter_edge(t)
    \/ /\ t = Builder
       /\ \/ top_node_lock
          \/ top_node_remove
          \/ top_node_add
    \/ /\ t = Holder
       /\ \/ flush_lock
          \/ flush_write

NextThreads ==
    \/ \E t \in Workers, span \in SpanNames, parent \in ParentNames \cup {None} :
           on_enter_call(t, span, parent)
    \/ \E t \in Workers : on_enter_lock(t)
    \/ \E t \in Workers : on_enter_add_node(t)
    \/ \E t \in Workers : on_enter_find_parent(t)
    \/ \E t \in Workers : on_enter_edge(t)
    \/ \E name \in TopNames : enable_top_node_call(name)
    \/ disable_top_node_call
    \/ top_node_lock
    \/ top_node_remove
    \/ top_node_add
    \/ install
    \/ flush_call
    \/ drop_call
    \/ flush_lock
    \/ flush_write

SpecThreads == Init /\ [][NextThreads]_vars

\* The threads enter spans of their own, all with the same parent: the k-th
\* span of thread t, and the parent.
SpanOf(t, k) == t \o "_" \o ToString(k)

SharedParent == "p"

\* The on_enter calls thread t has completed.
CallsDone(t) == Cardinality({k \in 1..MaxCalls : SpanOf(t, k) \in committed.nodes})

\* on_enter is called on thread t for its next span.
on_enter_call_own(t) ==
    /\ installed
    /\ pc[t] = "idle"
    /\ CallsDone(t) < MaxCalls
    /\ pc' = Goto(t, "oe_lock")
    /\ arg' = WithArg(t, [NoArg EXCEPT !.span = SpanOf(t, CallsDone(t) + 1),
                                      !.parent = SharedParent])
    /\ calls' = [calls EXCEPT !.on_enter = @ + 1]
    /\ UNCHANGED <<holders, installed, committed, shared, seq_history>>

NextDisjoint ==
    \/ install
    \/ \E t \in Workers : on_enter_call_own(t)
    \/ \E t \in Workers : on_enter_lock(t)
    \/ \E t \in Workers : on_enter_add_node(t)
    \/ \E t \in Workers : on_enter_find_parent(t)
    \/ \E t \in Workers : on_enter_edge(t)
    \/ flush_call
    \/ drop_call
    \/ flush_lock
    \/ flush_write

SpecDisjoint == Init /\ [][NextDisjoint]_vars

\* Every thread that can take a step of its call takes one in the end.
SpecFair == SpecThreads /\ \A t \in Threads : WF_vars(Proceed(t))

\* ---------------------------------------------------------------- claims
Inputs == ParentNames \cup {None}

\* The weight of the edge a -> b, 0 when there is none.
Weight(g, a, b) ==
    IF EdgesAt(g, a, b) = {} THEN 0
    ELSE (CHOOSE e \in EdgesAt(g, a, b) : TRUE)[3]

OnePerPair(g) == \A e1, e2 \in g.edges : Key(e1) = Key(e2) => e1 = e2

\* The span names of the completed on_enter calls.
Entered == {k.span : k \in {x \in ObsKeys : observed[x] > 0}}

\* The caller of a logged observation, by the rule of the claims: the parent
\* if there is one, else the top node, else none.  Before any reconfiguration
\* the top node of every logged call is the present one.
CallerOf(k) == IF k.parent # None THEN k.parent ELSE top_node

ObservedPairs ==
    {<<CallerOf(k), k.span>> :
        k \in {x \in ObsKeys : observed[x] > 0 /\ CallerOf(x) # None}}

TimesObserved(c, s) ==
    Total(observed, {k \in ObsKeys : CallerOf(k) = c /\ k.span = s})

\* C1: as long as only on_enter calls follow the configuration of the top
\* node, the graph has at most one edge per ordered pair, its edges are
\* exactly the observed (caller, span) pairs, and each edge's weight is the
\* number of times its pair was observed.
C1_EdgesCountObservations ==
    ~reconfigured =>
        /\ OnePerPair(graph)
        /\ Cardinality(graph.edges) = Cardinality(ObservedPairs)
        /\ \A e \in graph.edges :
               /\ Key(e) \in ObservedPairs
               /\ e[3] = TimesObserved(e[1], e[2])

\* C1 witness: on_enter("b", parent "a") twice gave one edge a -> b of weight 2.
C1_Witness ==
    /\ ~reconfigured
    /\ observed[[span |-> "b", parent |-> "a"]] = 2
    /\ graph.edges = {<<"a", "b", 2>>}

\* C2: a completed on_enter(span, parent) adds 1 to the weight of exactly one
\* edge, caller -> span, where caller is the parent if there is one (whatever
\* the top node), else the top node if one is enabled; every other edge is as
\* before; with neither parent nor top node no edge changes and the only
\* change to the nodes is that span is among them.
C2_CallerResolution ==
    [][\A span \in SpanNames, parent \in Inputs :
          (~poisoned /\ on_enter(span, parent)) =>
              LET caller == IF parent # None THEN parent ELSE top_node
              IN  IF caller # None
                  THEN /\ Weight(graph', caller, span) = Weight(graph, caller, span) + 1
                       /\ OnePerPair(graph')
                       /\ \A a, b \in Names :
                              <<a, b>> # <<caller, span>> =>
                                  EdgesAt(graph', a, b) = EdgesAt(graph, a, b)
                       /\ span \in graph'.nodes
                  ELSE /\ graph'.edges = graph.edges
                       /\ graph'.nodes = graph.nodes \cup {span}]_vars

\* C2 witness: with top node "r" enabled, on_enter("b", parent "a") has made
\* the edge a -> b and no edge from r.
C2_Witness ==
    /\ last = [op |-> "on_enter", result |-> "ok", preTop |-> "r"]
    /\ top_node = "r"
    /\ observed[[span |-> "b", parent |-> "a"]] = 1
    /\ Total(observed, ObsKeys) = 1
    /\ graph.edges = {<<"a", "b", 1>>}

\* C3: the graph has a node for every span name entered, and for the top node
\* whenever one is enabled.
C3_NodeForEverySpan ==
    /\ Entered \subseteq graph.nodes
    /\ top_node # None => top_node \in graph.nodes

\* C4: the release of the guard is one call of flush on the graph of that
\* moment (when the lock is healthy and the writer accepts it, exactly one
\* serialization of that graph is appended to the writer); after release no
\* flush happens and the writer is not touched again; an explicit flush()
\* leaves the guard Bound.
C4_ReleaseFlushesOnce ==
    [][/\ (guard = "Bound" /\ guard' = "Released") =>
              /\ flushCalls' = flushCalls + 1
              /\ graph' = graph
              /\ writer' \in {writer, Append(writer, Dot(graph))}
              /\ (~poisoned /\ last'.result = "ok") =>
                     writer' = Append(writer, Dot(graph))
       /\ guard = "Released" =>
              /\ guard' = "Released"
              /\ writer' = writer
              /\ flushCalls' = flushCalls
       /\ (\E panicking \in BOOLEAN, io \in IoOutcomes : flush(panicking, io)) =>
              /\ guard = "Bound"
              /\ guard' = "Bound"]_vars

\* C4 witness: after an explicit flush the guard was released, and the release
\* wrote the graph of that moment, which was not empty.
C4_Witness ==
    /\ guard = "Released"
    /\ last.op = "drop"
    /\ last.result = "ok"
    /\ flushCalls = 2
    /\ Len(writer) = 2
    /\ writer[2] = Dot(graph)
    /\ graph.edges # {}

\* A call of flush (explicit or by drop) that wrote, after an earlier one.
SecondWrite == Len(writer) > 0 /\ Len(writer') = Len(writer) + 1

SameOutputAgain == writer'[Len(writer')] = writer[Len(writer)]

\* C5 as claimed: two calls of flush with no on_enter call between them write
\* the same output.
C5_SameOutputWithoutObserve ==
    [][(SecondWrite /\ sinceFlush # "observe") => SameOutputAgain]_vars

\* C5 as amended: two calls of flush with no on_enter, enable_top_node or
\* disable_top_node call between them write the same output.
C5_SameOutputWithoutGraphCall ==
    [][(SecondWrite /\ sinceFlush = "none") => SameOutputAgain]_vars

\* C5 witness: two calls of flush, both of which wrote, with no call between
\* them (the one on_enter came before the first, and no top-node call after
\* it); the two outputs are the same and show the edge.
C5_Witness ==
    /\ flushCalls = 2
    /\ Len(writer) = 2
    /\ writer[1] = writer[2]
    /\ Total(observed, ObsKeys) = 1
    /\ ~reconfigured
    /\ writer[1] = Dot(graph)
    /\ graph.edges # {}

\* C6: enable_top_node(name) right after a completed enable_top_node(name)
\* changes neither nodes, edges, weights nor the top-node designation.
C6_EnableTwiceIsEnableOnce ==
    [][\A name \in TopNames :
          (/\ last.op = "enable_top_node"
           /\ last.result = "ok"
           /\ top_node = name
           /\ ~poisoned
           /\ enable_top_node(name)) =>
              /\ graph' = graph
              /\ top_node' = top_node]_vars

\* C7: from a state with no top node, a completed enable_top_node(name)
\* leads to a state from which disable_top_node() gives back the edge set of
\* before the enable.
C7_EnableDisableKeepsEdges ==
    [][\A name \in TopNames :
          (top_node = None /\ ~poisoned /\ enable_top_node(name)) =>
              without_top_node(graph', top_node').edges = graph.edges]_vars

\* C8: a completed disable_top_node() with a top node active leaves that node
\* out of the graph, leaves no edge from or to it, and clears the
\* designation; with no top node active it changes nothing.
C8_DisableRemovesTopNode ==
    [][(disable_top_node /\ last'.result = "ok") =>
          IF top_node # None
          THEN /\ top_node \notin graph'.nodes
               /\ \A e \in graph'.edges : e[1] # top_node /\ e[2] # top_node
               /\ top_node' = None
          ELSE /\ graph' = graph
               /\ top_node' = top_node]_vars

\* C8 witness: disable_top_node() has removed top node "r", which had an edge
\* to an entered span, and the span's node is still there.
C8_Witness ==
    /\ last = [op |-> "disable_top_node", result |-> "ok", preTop |-> "r"]
    /\ observed[[span |-> "b", parent |-> None]] = 1
    /\ graph = [nodes |-> {"b"}, edges |-> {}]

\* C9: a completed enable_top_node(name) while top node X is active leaves
\* name as the top node, with its node in the graph, and no edge from or to X;
\* unless X is name, the node X is gone.
C9_EnableReplacesTopNode ==
    [][\A name \in TopNames :
          (top_node # None /\ enable_top_node(name) /\ last'.result = "ok") =>
              /\ top_node' = name
              /\ name \in graph'.nodes
              /\ \A e \in graph'.edges : e[1] # top_node /\ e[2] # top_node
              /\ (top_node # name => top_node \notin graph'.nodes)]_vars

\* C9 witness: enable_top_node("a") came while top node "r", with an edge to
\* an entered span, was active.
C9_Witness ==
    /\ last = [op |-> "enable_top_node", result |-> "ok", preTop |-> "r"]
    /\ top_node = "a"
    /\ observed[[span |-> "b", parent |-> None]] = 1
    /\ graph = [nodes |-> {"a", "b"}, edges |-> {}]

\* C10: a flush (explicit or by drop) that finds the lock poisoned writes
\* nothing; it returns Ok when the calling thread is panicking and panics
\* when it is not.
C10_PoisonedFlush ==
    [][\A panicking \in BOOLEAN, io \in IoOutcomes :
          (poisoned /\ (flush(panicking, io) \/ drop(panicking, io))) =>
              /\ writer' = writer
              /\ last'.result = IF panicking THEN "ok" ELSE "panic"]_vars

\* C10 witness: the graph was not empty when the lock was poisoned, a flush
\* then returned Ok, and nothing was written.
C10_Witness ==
    /\ poisoned
    /\ last.op \in {"flush", "drop"}
    /\ last.result = "ok"
    /\ graph.edges # {}
    /\ writer = << >>

\* C11: with a healthy lock, a failure of the write or of the writer's flush
\* makes an explicit flush() return Err and leaves the guard Bound; the same
\* failure in the flush of drop is reported, neither returned nor turned into
\* a panic, and the guard is released.
C11_IoFailure ==
    [][\A panicking \in BOOLEAN, io \in IoOutcomes \ {"ok"} :
          /\ (~poisoned /\ flush(panicking, io)) =>
                 /\ last'.result = "err"
                 /\ guard' = "Bound"
          /\ (~poisoned /\ drop(panicking, io)) =>
                 /\ last'.result = "reported"
                 /\ guard' = "Released"]_vars

\* C11 witness: an explicit flush and the flush of drop both failed to write;
\* the drop reported it.
C11_Witness ==
    /\ ~poisoned
    /\ flushCalls = 2
    /\ writer = << >>
    /\ last.op = "drop"
    /\ last.result = "reported"
    /\ graph.edges # {}

\* The names a completed call is known to have inserted: the entered spans,
\* their parents, the top node, and the top node before the last call.  Every
\* node of the graph is among them, so a graph with fewer nodes than these has
\* fewer nodes than names ever inserted.
InsertedNames ==
    (Entered \cup {k.parent : k \in {x \in ObsKeys : observed[x] > 0}}
             \cup {top_node, last.preTop}) \ {None}

\* The names an on_enter of (span, parent) inserts: the span and its caller.
InsertedBy(span, parent) ==
    {span} \cup ({find_parent(parent, top_node)} \ {None})

\* C12 as stated: the number of nodes equals the number of distinct names ever
\* inserted (span names, parent names and the top node).
C12_NodesCountInsertedNames ==
    Cardinality(graph.nodes) = Cardinality(InsertedNames)

\* C12 amended: the node-insertion step leaves the node set unchanged when the
\* span's node exists; an on_enter adds exactly the names it inserts that are
\* not nodes yet; only disable_top_node and the replacement in enable_top_node
\* take a node away, the top node before the call; no other call changes the
\* node set.  So the nodes are the names inserted and not removed since.
C12_NodesAreInsertedNotRemoved ==
    [][/\ \A span \in SpanNames, parent \in ParentNames \cup {None} :
             (~poisoned /\ last'.op = "on_enter" /\ on_enter(span, parent)) =>
                 /\ span \in graph.nodes =>
                        add_node(graph, span).nodes = graph.nodes
                 /\ graph'.nodes = graph.nodes \cup InsertedBy(span, parent)
                 /\ Cardinality(graph'.nodes) = Cardinality(graph.nodes)
                        + Cardinality(InsertedBy(span, parent) \ graph.nodes)
       /\ \A name \in TopNames :
             (~poisoned /\ last'.op = "enable_top_node" /\ enable_top_node(name)) =>
                 graph'.nodes = (graph.nodes \ {top_node}) \cup {name}
       /\ (~poisoned /\ last'.op = "disable_top_node" /\ disable_top_node) =>
                 graph'.nodes = graph.nodes \ {top_node}
       /\ flushCalls' # flushCalls => graph'.nodes = graph.nodes
       /\ last'.result = "panic" => graph'.nodes = graph.nodes]_vars

\* C12 witness: a span whose node existed was entered again, and the graph
\* still has the two nodes of the names inserted.
C12_Witness ==
    /\ last.op = "on_enter"
    /\ last.result = "ok"
    /\ \E k \in ObsKeys : observed[k] = 2
    /\ Cardinality(graph.nodes) = 2
    /\ graph.nodes = InsertedNames

\* Thread t is between the steps of an on_enter: the span's node is in the
\* graph and the edge of the call is not.
Torn(t) == pc[t] \in {"oe_parent", "oe_edge"}

\* Thread u is where it reads the graph: in the steps of an on_enter, or in a
\* flush that serializes it.
Sees(u) == pc[u] \in {"oe_node", "oe_parent", "oe_edge", "fl_write", "dr_write"}

\* C13: while an on_enter is between inserting its span's node and applying
\* its edge, no other on_enter is in its steps and no flush serializes; the
\* graph differs from the one the finished calls made by that node alone.
C13_ObserveAtomic ==
    \A t \in Workers :
        Torn(t) =>
            /\ \A u \in Threads \ {t} : ~Sees(u)
            /\ graph = add_node(committed, arg[t].span)

\* C13 witness: an on_enter has inserted its node and not yet its edge while
\* another on_enter and a flush have been called and wait.
C13_Witness ==
    \E t, u \in Workers :
        /\ pc[t] = "oe_edge"
        /\ arg[t].span \notin committed.nodes
        /\ pc[u] = "oe_lock"
        /\ pc[Holder] = "fl_lock"

\* Thread t is between taking the lock and dropping its guard.
InCritical(t) ==
    pc[t] \in {"oe_node", "oe_parent", "oe_edge", "tn_remove", "tn_add",
               "fl_write", "dr_write"}

\* Thread t has called lock() and the call has not returned.
Waiting(t) ==
    pc[t] \in {"oe_lock", "tn_lock_remove", "tn_lock_add", "fl_lock", "dr_lock"}

\* C14: at most one thread at a time is in the locked part of an on_enter, of
\* an enable_top_node or disable_top_node, or of a flush, and it is the one
\* holder of the mutex; a thread leaves lock() only when no thread holds the
\* mutex, flush like the others.
C14_MutualExclusion ==
    /\ [](/\ Cardinality({t \in Threads : InCritical(t)}) <= 1
          /\ holders = {t \in Threads : InCritical(t)})
    /\ [][\A t \in Threads :
             (Waiting(t) /\ ~Waiting(t)') => (holders = {} /\ holders' = {t})]_vars

\* C14 witness: an on_enter holds the lock while another on_enter and a flush
\* wait for it.
C14_Witness ==
    \E t, u \in Workers :
        /\ holders = {t}
        /\ pc[t] = "oe_node"
        /\ pc[u] = "oe_lock"
        /\ pc[Holder] \in {"fl_lock", "dr_lock"}

\* Every thread has made all its calls.
AllDone == \A t \in Workers : pc[t] = "idle" /\ CallsDone(t) = MaxCalls

\* C15: with the threads entering MaxCalls spans each, no name twice, all
\* with the same parent, under every interleaving each completed call has
\* left one edge of weight 1 out of the parent, and when all calls are done
\* there are (number of threads) * MaxCalls edges, one to each span.
C15_DisjointSpansOneEdgeEach ==
    /\ OnePerPair(graph)
    /\ \A e \in graph.edges : e[1] = SharedParent /\ e[3] = 1
    /\ Cardinality(graph.edges) = calls.with_caller
    /\ AllDone =>
          /\ Cardinality(graph.edges) = Cardinality(Workers) * MaxCalls
          /\ graph.edges = {<<SharedParent, SpanOf(t, k), 1>> :
                               t \in Workers, k \in 1..MaxCalls}

\* C15 witness: all calls of all threads are done; a flush between them wrote
\* some of the edges and the flush of drop wrote another graph.
C15_Witness ==
    /\ AllDone
    /\ calls.with_caller = Cardinality(Workers) * MaxCalls
    /\ Len(writer) = 2
    /\ writer[1].edge_stmts # {}
    /\ writer[1] # writer[2]

\* C16: with every thread scheduled, no panic and no writer failure, there is
\* no deadlock (while a call is under way some thread can take a step of its
\* call) and every call that starts gets the lock, completes and releases it:
\* the calls of a behaviour being finitely many, from some point on every
\* thread is back from its calls and the mutex is free.  The early return of
\* an on_enter with no caller is among the returns.
C16_CallsComplete ==
    /\ []((\E t \in Threads : pc[t] # "idle") =>
              ENABLED (\E t \in Threads : Proceed(t)))
    /\ <>[](holders = {} /\ \A t \in Threads : pc[t] = "idle")

\* C16 witness: all on_enter calls have returned, one of them early with no
\* edge, the guard has been dropped after a flush, and the mutex is free.
C16_Witness ==
    /\ \A t \in Threads : pc[t] = "idle"
    /\ holders = {}
    /\ calls.on_enter = MaxObserve
    /\ calls.with_caller < calls.on_enter
    /\ guard = "Released"
    /\ flushCalls = MaxFlush + 1
    /\ Len(writer) = flushCalls

\* The sum of the weights of a set of edges.
RECURSIVE SumWeights(_)
SumWeights(E) ==
    IF E = {} THEN 0
    ELSE LET e == CHOOSE x \in E : TRUE IN e[3] + SumWeights(E \ {e})

\* C17: whenever no on_enter and no top-node call holds the lock, the graph is
\* the result of the calls that have released it, applied one after the other
\* in the order of their releases; that graph is what a flush holding the lock
\* writes, the flush of drop too, and its weights add up to the number of
\* on_enter calls with a caller that completed before (no top-node call comes
\* after an on_enter here).
C17_FlushWritesCommittedGraph ==
    /\ [](holders \subseteq {Holder} =>
             /\ graph = committed
             /\ SumWeights(graph.edges) = calls.with_caller)
    /\ [][flush_write =>
             /\ writer' = Append(writer, Dot(committed))
             /\ committed' = committed
             /\ SumWeights(committed.edges) = calls.with_caller]_vars

\* C17 witness: the flush of drop wrote the graph of the completed on_enter
\* calls while another on_enter had been called and waited for the lock; an
\* earlier flush wrote the graph before them.
C17_Witness ==
    /\ guard = "Released"
    /\ Len(writer) = 2
    /\ writer[1] # writer[2]
    /\ writer[2] = Dot(committed)
    /\ calls.with_caller = 1
    /\ \E t \in Workers : pc[t] = "oe_lock"

\* C18: a flush, called or made by drop, leaves the nodes, the edges with
\* their weights and the top node as they were, whether it writes, fails to
\* write or to flush the writer, or finds the mutex poisoned while unwinding
\* or not.
C18_FlushKeepsGraph ==
    [][\A panicking \in BOOLEAN, io \in IoOutcomes :
          (flush(panicking, io) \/ drop(panicking, io)) =>
              /\ graph'.nodes = graph.nodes
              /\ graph'.edges = graph.edges
              /\ top_node' = top_node]_vars

\* C18 witness: after a flush call that wrote nothing and a drop that found
\* the mutex poisoned while unwinding, the graph has its edge and the layer
\* its top node.
C18_Witness ==
    /\ poisoned
    /\ flushCalls = 2
    /\ writer = << >>
    /\ last.op = "drop"
    /\ last.result = "ok"
    /\ graph.edges # {}
    /\ top_node # None

\* Sequence s is the beginning of sequence w.
IsPrefix(s, w) == Len(s) <= Len(w) /\ SubSeq(w, 1, Len(s)) = s

LayerCall ==
    \/ \E span \in SpanNames \cup {None}, parent \in ParentNames \cup {None} :
           on_enter(span, parent)
    \/ \E name \in TopNames : enable_top_node(name)
    \/ disable_top_node

\* C20 as stated: once the mutex is poisoned, every on_enter, enable_top_node
\* and disable_top_node call fails, leaving the graph as it is, and no flush
\* writes.
C20_PoisonedEveryCallFails ==
    [][poisoned =>
          /\ poisoned'
          /\ graph' = graph
          /\ writer' = writer
          /\ LayerCall => last'.result = "panic"]_vars

\* C20 amended: an on_enter whose span is not in the registry panics with the
\* lock held and poisons the mutex; the mutex stays poisoned; from then on the
\* graph does not change and no flush writes; every on_enter and every
\* enable_top_node panics, and a disable_top_node panics when a top node is
\* active and returns without locking when none is.
C20_PoisonFreezesGraph ==
    [][/\ \A parent \in ParentNames \cup {None} :
             (~poisoned /\ on_enter(None, parent)) =>
                 /\ poisoned'
                 /\ graph' = graph
                 /\ last'.result = "panic"
       /\ poisoned =>
             /\ poisoned'
             /\ graph' = graph
             /\ writer' = writer
             /\ (\E span \in SpanNames \cup {None},
                    parent \in ParentNames \cup {None} : on_enter(span, parent))
                    => last'.result = "panic"
             /\ (\E name \in TopNames : enable_top_node(name))
                    => last'.result = "panic"
             /\ disable_top_node =>
                    /\ top_node # None => last'.result = "panic"
                    /\ top_node = None => last'.result = "ok" /\ layer' = layer]_vars

\* C20 witness: with a graph recorded and a serialization written, the mutex
\* was poisoned; an on_enter after that panicked and the drop of the guard
\* wrote nothing.
C20_Witness ==
    /\ poisoned
    /\ graph.edges # {}
    /\ Len(writer) = 1
    /\ flushCalls = 2
    /\ guard = "Released"
    /\ last.op = "on_enter"
    /\ last.result = "panic"
    /\ writer[1] = Dot(graph)

====
